---- MODULE Spec2Model ----
(***************************************************************************)
(* Model of scripts/compress_images.py: main() reads a batch of base64     *)
(* images and a total ceiling, passes the batch through when it fits, and  *)
(* otherwise recompresses every image above a uniform allowance with       *)
(* compress_image(), a first-fit search over a (scale, quality) ladder     *)
(* with a forced fallback.                                                 *)
(*                                                                         *)
(* An image's "data" is modelled by what the script reads of it: the       *)
(* length of the base64 string (len), whether it decodes (valid), and the  *)
(* decoded picture (pix names the picture, mode, w, h; entropy drives the  *)
(* size of its JPEG encodings).  q is 0 for a payload as it was received   *)
(* and the JPEG quality for a payload written by compress_image.           *)
(***************************************************************************)
EXTENDS Integers, Sequences, FiniteSets

VARIABLES
    request,                \* the JSON document on stdin
    pc,                     \* position in main / compress_image
    images,                 \* main: data['images']
    max_total,              \* main: max_total
    total,                  \* main: total
    per_image_target_b64,   \* main
    per_image_target_bytes, \* main
    idx,                    \* main: position of the for loop (1-based)
    result,                 \* main: result
    stdout,                 \* the documents written by json.dump
    err,                    \* the exception that ended the run, "" if none
    img,                    \* compress_image: img (after conversion)
    target_bytes,           \* compress_image: target_bytes
    si,                     \* compress_image: position in the scale list
    qi,                     \* compress_image: position in the quality list
    resized,                \* compress_image: size of resized
    encodes,                \* save() operations of the current call
    calls                   \* compress_image calls so far: [index, target]

vars == <<request, pc, images, max_total, total, per_image_target_b64,
          per_image_target_bytes, idx, result, stdout, err, img,
          target_bytes, si, qi, resized, encodes, calls>>

----------------------------------------------------------------------------
(* Bounds and inputs *)

MaxImages == 2

Payload(pix, len, mode, w, h, entropy) ==
    [pix |-> pix, len |-> len, valid |-> TRUE, mode |-> mode,
     w |-> w, h |-> h, entropy |-> entropy, q |-> 0]

Corrupt(pix, len) ==
    [pix |-> pix, len |-> len, valid |-> FALSE, mode |-> "RGB",
     w |-> 1, h |-> 1, entropy |-> 0, q |-> 0]

Image(data, media_type) == [data |-> data, media_type |-> media_type]

\* The pictures a request may hold: flat and noisy photographs, pictures
\* with alpha or a palette, an icon, a strip, a grey+alpha picture and a
\* payload that is no picture.
InputImages ==
    { Image(Payload("photoFlat",  400000,  "RGB",  1200, 800, 2),   "image/png"),
      Image(Payload("photoNoise", 1000000, "RGB",  1200, 800, 150), "image/jpeg"),
      Image(Payload("logoAlpha",  40000,   "RGBA", 360,  360, 2),   "image/png"),
      Image(Payload("shotAlpha",  450000,  "RGBA", 1200, 800, 150), "image/png"),
      Image(Payload("gifNoise",   200000,  "P",    360,  360, 150), "image/gif"),
      Image(Payload("icon",       10000,   "RGBA", 50,   50,  150), "image/png"),
      Image(Payload("thumb",      3000,    "RGB",  120,  90,  2),   "image/jpeg"),
      Image(Payload("strip",      3000,    "RGB",  1000, 2,   2),   "image/png"),
      Image(Payload("greyAlpha",  400000,  "LA",   1200, 800, 2),   "image/png"),
      Image(Corrupt("garbage",    400000),                          "image/png") }

\* The ceilings a request may give; <<>> is a request without the field.
Ceilings == { <<>>, <<1000000>>, <<400000>>, <<25102>>, <<2000>>, <<0>>, <<-1>> }

RECURSIVE SeqsUpTo(_, _)
SeqsUpTo(S, n) ==
    IF n = 0 THEN { <<>> }
    ELSE LET shorter == SeqsUpTo(S, n - 1)
         IN  shorter \cup { Append(s, x) : s \in shorter, x \in S }

Requests ==
    [images : SeqsUpTo(InputImages, MaxImages), max_total_bytes : Ceilings]

----------------------------------------------------------------------------
(* Arithmetic and library functions, as the script computes them *)

\* int(x) of a quotient a / b with b > 0: truncation towards zero.
PyInt(a, b) == IF a >= 0 THEN a \div b ELSE -((-a) \div b)

RECURSIVE Pow2Below(_, _)
Pow2Below(k, p) == IF 2 * p <= k THEN Pow2Below(k, 2 * p) ELSE p

\* int(d * scale) in double arithmetic, scale given in percent.  1.0, 0.75,
\* 0.5 and 0.25 are exact doubles; 0.35 is a double slightly below 35/100,
\* so an exact product k = 35*d/100 is rounded down to the double below k,
\* and truncated to k - 1, when k is in the upper part of its binade.
ScaledDim(d, pct) ==
    LET k == (d * pct) \div 100
    IN  IF pct = 35 /\ d > 0 /\ d % 20 = 0 /\ 4 * k > 7 * Pow2Below(k, 1)
        THEN k - 1
        ELSE k

\* len(base64.b64encode(n bytes))
B64Len(n) == 4 * ((n + 2) \div 3)

\* len of the JPEG that save(format='JPEG', quality=q, optimize=True)
\* writes for a w x h picture: a header plus a payload that grows with the
\* pixels, the quality and the picture's entropy.
JpegSize(entropy, w, h, q) == 623 + (((w * h) \div 100) * q * entropy) \div 100

\* The modes Pillow's JPEG writer accepts; save() raises OSError otherwise.
JpegWritable(mode) == mode \in {"1", "L", "RGB", "RGBX", "CMYK", "YCbCr"}

Scales == <<100, 75, 50, 35, 25>>
Qualities == <<85, 60, 40, 25>>
MinDim == 100
FallbackWidth == 400
FallbackQuality == 20
DefaultMaxTotal == 8000000

RECURSIVE SumLen(_)
SumLen(s) == IF s = <<>> THEN 0 ELSE s[1].data.len + SumLen(Tail(s))

Allowance(ceiling, n) == PyInt(ceiling * 9, 10 * n)
TargetBytes(allowance) == PyInt(allowance * 3, 4)

\* Mutant: the short-circuit compares with < instead of <=.
FitsTotalStrict(t, ceiling) == t < ceiling
FitsTotal(t, ceiling) == t <= ceiling
\* Mutant: an image exactly at the allowance is recompressed.
PassThroughStrict(len, allowance) == len < allowance
PassThrough(len, allowance) == len <= allowance
\* Mutant: an encoding exactly at the target is rejected.
FitsStrict(size, target) == size < target
Fits(size, target) == size <= target
Skipped(new_w, new_h) == new_w < MinDim \/ new_h < MinDim
NormalizeMode(mode) == IF mode \in {"RGBA", "P"} THEN "RGB" ELSE mode
FallbackHeight(w, h) == PyInt(FallbackWidth * h, w)

\* The payload compress_image returns for an encoding of picture im.
Encoded(im, w, h, q) ==
    [pix |-> im.pix, len |-> B64Len(JpegSize(im.entropy, w, h, q)),
     valid |-> TRUE, mode |-> im.mode, w |-> w, h |-> h,
     entropy |-> im.entropy, q |-> q]

\* Mutant: the entry keeps the declared media type of the input image.
ResultEntryDeclaredType(image, new_b64, new_type) ==
    [data |-> new_b64, media_type |-> image.media_type]
ResultEntry(image, new_b64, new_type) == [data |-> new_b64, media_type |-> new_type]
\* Mutant: the entry is put in front of the list.
AppendResultFront(res, entry) == <<entry>> \o res
AppendResult(res, entry) == Append(res, entry)

NoImg == [pix |-> "", mode |-> "", w |-> 0, h |-> 0, entropy |-> 0]
NoSize == <<0, 0>>

----------------------------------------------------------------------------
(* The program *)

Init ==
    /\ request \in Requests
    /\ pc = "main"
    /\ images = <<>>
    /\ max_total = 0
    /\ total = 0
    /\ per_image_target_b64 = 0
    /\ per_image_target_bytes = 0
    /\ idx = 0
    /\ result = <<>>
    /\ stdout = <<>>
    /\ err = ""
    /\ img = NoImg
    /\ target_bytes = 0
    /\ si = 0
    /\ qi = 0
    /\ resized = NoSize
    /\ encodes = 0
    /\ calls = <<>>

CallVars == <<img, target_bytes, si, qi, resized, encodes, calls>>
PlanVars == <<per_image_target_b64, per_image_target_bytes>>

Raise(e) ==
    /\ pc' = "error"
    /\ err' = e

\* main, lines 43-53: read the request, sum the encoded lengths, and write
\* the batch back when it fits.
ReadRequest ==
    /\ pc = "main"
    /\ LET imgs == request.images
           ceiling == IF request.max_total_bytes = <<>>
                      THEN DefaultMaxTotal
                      ELSE request.max_total_bytes[1]
           t == SumLen(imgs)
       IN  /\ images' = imgs
           /\ max_total' = ceiling
           /\ total' = t
           /\ IF FitsTotal(t, ceiling)
              THEN /\ stdout' = Append(stdout, imgs)
                   /\ pc' = "done"
              ELSE /\ stdout' = stdout
                   /\ pc' = "plan"
    /\ UNCHANGED <<request, idx, result, err>>
    /\ UNCHANGED PlanVars
    /\ UNCHANGED CallVars

\* main, lines 55-60: the per-image targets.
Plan ==
    /\ pc = "plan"
    /\ IF Len(images) = 0
       THEN /\ Raise("ZeroDivisionError")
            /\ UNCHANGED <<idx, result>>
            /\ UNCHANGED PlanVars
       ELSE /\ per_image_target_b64' = Allowance(max_total, Len(images))
            /\ per_image_target_bytes' =
                   TargetBytes(Allowance(max_total, Len(images)))
            /\ result' = <<>>
            /\ idx' = 1
            /\ pc' = "loop"
            /\ err' = err
    /\ UNCHANGED <<request, images, max_total, total, stdout>>
    /\ UNCHANGED CallVars

\* main, lines 61-64: an image within the allowance is appended as it is.
LoopKeep ==
    /\ pc = "loop"
    /\ idx <= Len(images)
    /\ PassThrough(images[idx].data.len, per_image_target_b64)
    /\ result' = AppendResult(result, images[idx])
    /\ idx' = idx + 1
    /\ UNCHANGED <<request, pc, images, max_total, total, stdout, err>>
    /\ UNCHANGED PlanVars
    /\ UNCHANGED CallVars

\* main, lines 65-67 and compress_image, lines 13-18: decode the image and
\* drop alpha and palette.
LoopCompress ==
    /\ pc = "loop"
    /\ idx <= Len(images)
    /\ ~PassThrough(images[idx].data.len, per_image_target_b64)
    /\ calls' = Append(calls, [index |-> idx, target |-> per_image_target_bytes])
    /\ target_bytes' = per_image_target_bytes
    /\ encodes' = 0
    /\ LET d == images[idx].data
       IN  IF ~d.valid
           THEN /\ Raise("UnidentifiedImageError")
                /\ UNCHANGED <<img, si>>
           ELSE /\ img' = [pix |-> d.pix, mode |-> NormalizeMode(d.mode),
                           w |-> d.w, h |-> d.h, entropy |-> d.entropy]
                /\ si' = 1
                /\ pc' = "scale"
                /\ err' = err
    /\ UNCHANGED <<request, images, max_total, total, idx, result, stdout,
                   qi, resized>>
    /\ UNCHANGED PlanVars

\* compress_image, lines 21-26: the next scale, skipped when a side would
\* fall below 100; after the last scale the fallback follows.
ScaleStep ==
    /\ pc = "scale"
    /\ LET new_w == ScaledDim(img.w, Scales[si])
           new_h == ScaledDim(img.h, Scales[si])
       IN  IF Skipped(new_w, new_h)
           THEN /\ IF si < Len(Scales)
                   THEN /\ si' = si + 1
                        /\ pc' = "scale"
                   ELSE /\ si' = si
                        /\ pc' = "fallback"
                /\ UNCHANGED <<qi, resized>>
           ELSE /\ resized' = <<new_w, new_h>>
                /\ qi' = 1
                /\ pc' = "encode"
                /\ si' = si
    /\ UNCHANGED <<request, images, max_total, total, idx, result, stdout,
                   err, img, target_bytes, encodes, calls>>
    /\ UNCHANGED PlanVars

\* What compress_image's return does in main, line 68 and the loop's next
\* step.
Return(new_b64, new_type) ==
    /\ result' = AppendResult(result, ResultEntry(images[idx], new_b64, new_type))
    /\ idx' = idx + 1
    /\ pc' = "loop"
    /\ img' = NoImg
    /\ target_bytes' = 0
    /\ si' = 0
    /\ qi' = 0
    /\ resized' = NoSize

\* compress_image, lines 28-33: one save(); the first encoding within the
\* target is returned.
Encode ==
    /\ pc = "encode"
    /\ IF ~JpegWritable(img.mode)
       THEN /\ Raise("OSError")
            /\ UNCHANGED <<idx, result, img, target_bytes, si, qi, resized,
                           encodes>>
       ELSE /\ encodes' = encodes + 1
            /\ err' = err
            /\ IF Fits(JpegSize(img.entropy, resized[1], resized[2], Qualities[qi]),
                       target_bytes)
               THEN Return(Encoded(img, resized[1], resized[2], Qualities[qi]),
                           "image/jpeg")
               ELSE /\ IF qi < Len(Qualities)
                       THEN /\ qi' = qi + 1
                            /\ pc' = "encode"
                            /\ si' = si
                       ELSE /\ qi' = qi
                            /\ IF si < Len(Scales)
                               THEN /\ si' = si + 1
                                    /\ pc' = "scale"
                               ELSE /\ si' = si
                                    /\ pc' = "fallback"
                    /\ UNCHANGED <<idx, result, img, target_bytes, resized>>
    /\ UNCHANGED <<request, images, max_total, total, stdout, calls>>
    /\ UNCHANGED PlanVars

\* compress_image, lines 35-39: the forced fallback.  resize() raises
\* ValueError for a height below 1, save() raises OSError for a mode JPEG
\* cannot hold.
Fallback ==
    /\ pc = "fallback"
    /\ LET new_h == FallbackHeight(img.w, img.h)
       IN  IF new_h < 1
           THEN /\ Raise("ValueError")
                /\ UNCHANGED <<idx, result, img, target_bytes, si, qi, resized,
                               encodes>>
           ELSE IF ~JpegWritable(img.mode)
           THEN /\ Raise("OSError")
                /\ UNCHANGED <<idx, result, img, target_bytes, si, qi, resized,
                               encodes>>
           ELSE /\ encodes' = encodes + 1
                /\ err' = err
                /\ Return(Encoded(img, FallbackWidth, new_h, FallbackQuality),
                          "image/jpeg")
    /\ UNCHANGED <<request, images, max_total, total, stdout, calls>>
    /\ UNCHANGED PlanVars

\* main, line 70: write the result.
Dump ==
    /\ pc = "loop"
    /\ idx > Len(images)
    /\ stdout' = Append(stdout, result)
    /\ pc' = "done"
    /\ UNCHANGED <<request, images, max_total, total, idx, result, err>>
    /\ UNCHANGED PlanVars
    /\ UNCHANGED CallVars

Next ==
    \/ ReadRequest
    \/ Plan
    \/ LoopKeep
    \/ LoopCompress
    \/ ScaleStep
    \/ Encode
    \/ Fallback
    \/ Dump

Spec == Init /\ [][Next]_vars

----------------------------------------------------------------------------
(* Views of a run used by the properties *)

ReqImages == request.images
ReqCount == Len(request.images)
ReqCeiling ==
    IF request.max_total_bytes = <<>> THEN 8000000 ELSE request.max_total_bytes[1]
ReqTotal == SumLen(request.images)
OverBudget == ReqTotal > ReqCeiling
Returned == pc = "done" /\ Len(stdout) = 1
Output == stdout[1]

\* int(ceiling * 0.9 / N) and int(allowance * 3 / 4), written out.
ClaimAllowance == PyInt(9 * ReqCeiling, 10 * ReqCount)
ClaimTarget == PyInt(3 * ClaimAllowance, 4)

Recompressed(entry) == entry.data.q # 0
HasAlphaOrPalette(data) == data.mode \in {"RGBA", "LA", "P"}

\* The ladder in the order the specification gives it: <<scale %, quality>>.
ClaimLadder ==
    << <<100, 85>>, <<100, 60>>, <<100, 40>>, <<100, 25>>,
       <<75, 85>>,  <<75, 60>>,  <<75, 40>>,  <<75, 25>>,
       <<50, 85>>,  <<50, 60>>,  <<50, 40>>,  <<50, 25>>,
       <<35, 85>>,  <<35, 60>>,  <<35, 40>>,  <<35, 25>>,
       <<25, 85>>,  <<25, 60>>,  <<25, 40>>,  <<25, 25>> >>

StepW(d, k) == ScaledDim(d.w, ClaimLadder[k][1])
StepH(d, k) == ScaledDim(d.h, ClaimLadder[k][1])
StepKept(d, k) == StepW(d, k) >= 100 /\ StepH(d, k) >= 100
StepSize(d, k) == JpegSize(d.entropy, StepW(d, k), StepH(d, k), ClaimLadder[k][2])
FittingSteps(d, target) ==
    { k \in 1..Len(ClaimLadder) : StepKept(d, k) /\ StepSize(d, k) <= target }
FallbackSize(d) == JpegSize(d.entropy, 400, PyInt(400 * d.h, d.w), 20)

----------------------------------------------------------------------------
(* C1 *)

\* C1: a batch whose total encoded size is within the ceiling is returned
\* unchanged (same length, same data and media type at every index), the
\* run never fails, and no image is decoded or re-encoded on the way.
C1_PassThroughUnchanged ==
    ReqTotal <= ReqCeiling =>
        /\ calls = <<>>
        /\ encodes = 0
        /\ pc \in {"main", "done"}
        /\ pc = "done" => stdout = <<ReqImages>>

C1_Witness ==
    /\ Returned
    /\ ReqTotal <= ReqCeiling
    /\ ReqCount = 2
    /\ \E i \in 1..ReqCount : ReqImages[i].data.mode = "RGBA"
    /\ Output = ReqImages

(* C2 *)

\* C2 (as claimed): whenever a result is returned for a positive ceiling,
\* the total encoded size of the returned batch does not exceed the ceiling.
C2_Original ==
    (Returned /\ ReqCeiling > 0) => SumLen(Output) <= ReqCeiling

(* C3 *)

\* C3 (as claimed): in a returned batch that needed compression, every
\* image's encoded size is at most max(allowance, encoded size of its
\* forced fallback); so a passed-through image and an image written by a
\* ladder step are within the allowance int(ceiling * 0.9 / N).
C3_Original ==
    (Returned /\ OverBudget) =>
        \A i \in 1..Len(Output) :
            LET fb == B64Len(FallbackSize(ReqImages[i].data))
                bound == IF ClaimAllowance >= fb THEN ClaimAllowance ELSE fb
            IN  /\ Output[i].data.len <= bound
                /\ (Recompressed(Output[i]) /\ Output[i].data.q # 20)
                       => Output[i].data.len <= ClaimAllowance

(* C4 *)

\* C4: the images produced so far, and the returned batch, stand in input
\* order: the output has as many images as the input, and the image at
\* index i is the input image at i unchanged or a recompression of the
\* picture of the input image at i.
C4_OrderPreserved ==
    /\ Len(result) <= ReqCount
    /\ \A i \in 1..Len(result) :
           \/ result[i] = ReqImages[i]
           \/ /\ Recompressed(result[i])
              /\ result[i].data.pix = ReqImages[i].data.pix
    /\ Returned => /\ Len(Output) = ReqCount
                   /\ OverBudget => Output = result

C4_Witness ==
    /\ Returned
    /\ ReqCount = 2
    /\ ReqImages[1].data.pix # ReqImages[2].data.pix
    /\ Output[1] = ReqImages[1]
    /\ Recompressed(Output[2])

(* C5 *)

\* C5 (as claimed): in every returned batch, the output for an input image
\* with an alpha channel or a palette has media type image/jpeg and no
\* alpha channel.
C5_Original ==
    Returned =>
        \A i \in 1..ReqCount :
            HasAlphaOrPalette(ReqImages[i].data) =>
                /\ Output[i].media_type = "image/jpeg"
                /\ ~HasAlphaOrPalette(Output[i].data)

\* C5 (amended): in every returned batch that needed compression, the
\* output for an input image with an alpha channel or a palette whose
\* encoded size exceeds the allowance has media type image/jpeg and no
\* alpha channel; such an image within the allowance is returned as it was.
C5_AlphaEliminatedWhenRecompressed ==
    (Returned /\ OverBudget) =>
        \A i \in 1..ReqCount :
            HasAlphaOrPalette(ReqImages[i].data) =>
                IF ReqImages[i].data.len > ClaimAllowance
                THEN /\ Output[i].media_type = "image/jpeg"
                     /\ ~HasAlphaOrPalette(Output[i].data)
                ELSE Output[i] = ReqImages[i]

C5_Witness ==
    /\ Returned
    /\ OverBudget
    /\ \E i \in 1..ReqCount :
           /\ ReqImages[i].data.mode = "RGBA"
           /\ ReqImages[i].media_type = "image/png"
           /\ ReqImages[i].data.len > ClaimAllowance
           /\ Output[i].media_type = "image/jpeg"
    /\ \E i \in 1..ReqCount :
           /\ ReqImages[i].data.mode = "P"
           /\ ReqImages[i].data.len > ClaimAllowance
           /\ Output[i].data.mode = "RGB"

(* C6 *)

\* C6 (as claimed): a call of compress_image on a decodable image with a
\* target of at least 1 byte never ends in an error and performs at most
\* 21 encode operations.
C6_Original ==
    (calls # <<>> /\ calls[Len(calls)].target >= 1) =>
        /\ err \notin {"OSError", "ValueError"}
        /\ encodes <= 21

(* C7 *)

\* C7 (as claimed): with a ceiling of zero or less nothing is processed:
\* no image is decoded or recompressed, no batch is written, and no
\* division by zero occurs.
C7_Original ==
    ReqCeiling <= 0 =>
        /\ calls = <<>>
        /\ stdout = <<>>
        /\ err # "ZeroDivisionError"

(* C8 *)

\* C8: every recompressed image is the encoding of the first ladder step,
\* in the order scale 1.0, 0.75, 0.5, 0.35, 0.25 and within a scale quality
\* 85, 60, 40, 25, that is not skipped (both resized sides at least 100)
\* and whose encoded size is within the target; every earlier step that is
\* not skipped is larger than the target; and it is the forced fallback
\* (width 400, quality 20) exactly when no such step exists.
C8_GreedyFirstFit ==
    \A i \in 1..Len(result) :
        Recompressed(result[i]) =>
            LET d == ReqImages[i].data
                o == result[i].data
                fit == FittingSteps(d, per_image_target_bytes)
            IN  IF fit # {}
                THEN \E k \in fit :
                        /\ \A j \in 1..(k - 1) :
                               StepKept(d, j) =>
                                   StepSize(d, j) > per_image_target_bytes
                        /\ o.w = StepW(d, k)
                        /\ o.h = StepH(d, k)
                        /\ o.q = ClaimLadder[k][2]
                        /\ o.len = B64Len(StepSize(d, k))
                ELSE /\ o.w = 400
                     /\ o.h = PyInt(400 * d.h, d.w)
                     /\ o.q = 20
                     /\ o.len = B64Len(FallbackSize(d))

C8_Witness ==
    /\ Returned
    /\ ReqCount = 2
    /\ Recompressed(Output[1])
    /\ Output[1].data.q = 20
    /\ FittingSteps(ReqImages[1].data, per_image_target_bytes) = {}
    /\ Recompressed(Output[2])
    /\ Output[2].data.q \in {85, 60, 40, 25}
    /\ Output[2].data.w < ReqImages[2].data.w
    /\ FittingSteps(ReqImages[2].data, per_image_target_bytes) # {}
    /\ \E k \in 1..Len(ClaimLadder) : ~StepKept(ReqImages[2].data, k)

(* C9 *)

\* C9: in a batch whose total exceeds the ceiling, compress_image is called
\* for an image exactly when its encoded size is greater than the allowance
\* int(ceiling * 0.9 / N); an image within the allowance is output
\* unchanged; every call gets the target int(allowance * 3 / 4).
C9_UniformAllowance ==
    (OverBudget /\ ReqCount > 0) =>
        /\ \A c \in 1..Len(calls) :
               /\ ReqImages[calls[c].index].data.len > ClaimAllowance
               /\ calls[c].target = ClaimTarget
        /\ \A i \in 1..Len(result) :
               IF ReqImages[i].data.len <= ClaimAllowance
               THEN /\ result[i] = ReqImages[i]
                    /\ \A c \in 1..Len(calls) : calls[c].index # i
               ELSE /\ Recompressed(result[i])
                    /\ \E c \in 1..Len(calls) : calls[c].index = i
        /\ Returned => Output = result /\ Len(result) = ReqCount

C9_Witness ==
    /\ Returned
    /\ OverBudget
    /\ ReqCount = 2
    /\ ReqImages[1].data.len = ClaimAllowance
    /\ Output[1] = ReqImages[1]
    /\ ReqImages[2].data.len > ClaimAllowance
    /\ Recompressed(Output[2])
    /\ Len(calls) = 1

(* C10 *)

\* C10 (as claimed): a recompressed image is never larger in pixels than
\* its input: its width and height are at most the input's, and at least 1
\* (stated here for positive ceilings).
C10_Original ==
    \A i \in 1..Len(result) :
        (ReqCeiling > 0 /\ Recompressed(result[i])) =>
            /\ result[i].data.w <= ReqImages[i].data.w
            /\ result[i].data.h <= ReqImages[i].data.h
            /\ result[i].data.w >= 1
            /\ result[i].data.h >= 1

====
